---- MODULE Spec2Model ----
(***************************************************************************)
(* One timer-triggered run of ssl_expiry_checker (function_app.py):        *)
(* read the settings, get the host names from the database, fetch each     *)
(* host's certificate, evaluate every distinct certificate against the     *)
(* expiry threshold, and post one e-mail to the webhook when some          *)
(* certificate is expiring.                                                *)
(***************************************************************************)
EXTENDS Integers, Sequences, FiniteSets, TLC

(* ------------------------------ bounds -------------------------------- *)

\* Longest list of host names the database query returns.
MaxHosts == 2

\* Most settings that are unset in one environment.
MaxMissing == 1

\* Clock resolution: time units in one day.
UnitsPerDay == 2

(* ------------------------- program constants -------------------------- *)

\* days = delta.days if delta.days else 90
Sentinel == 90

\* if response.status_code != 201
Created == 201

(* ----------------------------- settings ------------------------------- *)

\* A variant of DbKeys that forgets the last setting.
DbKeysWithoutName == <<"DB_HOST", "DB_USER", "DB_PASS">>

DbKeys == <<"DB_HOST", "DB_USER", "DB_PASS", "DB_NAME">>

EmailKeys == <<"EMAIL_SUBJECT", "EMAIL_TO", "EMAIL_SENDER">>

PlainKeys ==
  {"DB_HOST", "DB_USER", "DB_PASS", "DB_NAME",
   "EMAIL_SUBJECT", "EMAIL_TO", "EMAIL_SENDER",
   "WEBHOOK_URL", "WEBHOOK_USER", "WEBHOOK_PASS"}

Keys == PlainKeys \cup {"EXPIRY_THRESHOLD"}

\* os.getenv of a setting that is unset (None) or empty: both are falsy.
Unset == ""

\* Values a set EXPIRY_THRESHOLD takes: not a number, and two day counts.
ThresholdValues == {"soon", "30", "91"}

\* os.environ: every setting set, but for at most MaxMissing of them.
Environments ==
  {[k \in Keys |-> IF k \in missing THEN Unset
                   ELSE IF k = "EXPIRY_THRESHOLD" THEN t ELSE "x"] :
      missing \in {m \in SUBSET Keys : Cardinality(m) <= MaxMissing},
      t \in ThresholdValues}

(* --------------------------- certificates ----------------------------- *)

\* A PEM certificate is modelled by what X.509 decoding reads from it: the
\* Subject's Common Name attributes, the Subject Alternative Name extension
\* (present or not, and its DNS names) and notAfter; equal records are
\* byte-identical PEM text.
NotAfters == {-1, 1, 30 * UnitsPerDay - 1, 30 * UnitsPerDay + 1}

Pems ==
  {[subjectCN |-> c, hasSAN |-> s,
    dnsNames |-> IF s THEN <<"example.com", "www.example.com">> ELSE <<>>,
    notAfter |-> t] :
      c \in {<<>>, <<"example.com">>}, s \in BOOLEAN, t \in NotAfters}

\* Readings of datetime.now(timezone.utc) for the run.
Nows == {0, 1}

\* The host names the query returns, one per certificate name: the n-th row
\* holds host name n. What a fetch returns or raises is drawn per fetch and
\* does not depend on the name.
HostName(row) == row

\* What ssl.get_server_certificate raises instead of returning.
FetchErrors == {"ConnectionRefusedError", "TimeoutError", "SSLError", "InternalError"}

ConnectErrors == {"mysql.connector.Error", "Exception"}

QueryErrors == {"execute", "fetchall"}

\* What requests.post raises when the request gets no reply: subclasses of
\* requests.exceptions.RequestException.
PostErrors == {"ConnectionError", "Timeout"}

\* The lines that raise for the settings of DbKeys and of EmailKeys.
DbLines == <<149, 152, 155, 158>>

EmailLines == <<259, 262, 265>>

\* Status codes the webhook replies with.
Replies == {201, 200, 500}

NoError == [exc |-> "none", at |-> "none", line |-> 0]

NoEmail == [subject |-> Unset, body |-> <<>>, to |-> Unset, sender |-> Unset]

VARIABLES
  env,        \* os.environ
  clock,      \* datetime.now(timezone.utc), in time units
  pc,         \* where the run is
  conn,       \* the database connection: "none", "open", "closed"
  urls,       \* get_certificates: the host names still to fetch
  fetched,    \* history: every certificate a fetch returned, in order
  certs,      \* get_certificates: certs / ssl_expiry_checker: certs
  next,       \* ssl_expiry_checker: index in certs of the next certificate
  expiring,   \* ssl_expiry_checker: expiring
  email,      \* the Email object construct_email built
  work,       \* history: the kinds of outside work the run has done
  posts,      \* history: number of requests.post calls
  response,   \* Email.send: the status codes of the replies received
  recovered,  \* history: the functions that caught an exception and went on
  result,     \* "running", "ok" (returned) or "error" (raised)
  error       \* the exception that left ssl_expiry_checker, and where raised

vars == <<env, clock, pc, conn, urls, fetched, certs, next, expiring, email,
          work, posts, response, recovered, result, error>>

(* ------------------------------ helpers ------------------------------- *)

\* not os.getenv(key)
IsSet(key) == env[key] # Unset

\* The first key of the sequence that is not set, 0 when all are.
RECURSIVE FirstUnset(_, _)
FirstUnset(keys, i) ==
  IF i > Len(keys) THEN 0
  ELSE IF ~IsSet(keys[i]) THEN i
  ELSE FirstUnset(keys, i + 1)

\* int(text): the decimal texts the settings use and the numbers they denote.
Decimals == {<<"30", 30>>, <<"91", 91>>}

\* Whether int(text) returns; it raises ValueError otherwise.
IsDecimal(text) == \E d \in Decimals : d[1] = text

ParseInt(text) == (CHOOSE d \in Decimals : d[1] = text)[2]

\* timedelta.days of (expires - now): whole days, rounded down.
DeltaDays(expires, now) == (expires - now) \div UnitsPerDay

\* A variant of DaysUntilExpiry that also replaces negative day counts.
DaysSentinelUnlessPositive(deltaDays) ==
  IF deltaDays > 0 THEN deltaDays ELSE Sentinel

\* days = delta.days if delta.days else 90
DaysUntilExpiry(deltaDays) == IF deltaDays # 0 THEN deltaDays ELSE Sentinel

\* A variant of IsExpiring that includes the threshold itself.
IsExpiringInclusive(days, threshold) == days <= threshold

\* if days < int(os.getenv('EXPIRY_THRESHOLD'))
IsExpiring(days, threshold) == days < threshold

\* A variant of AppendIfNew without the membership test.
AppendAlways(list, cert) == Append(list, cert)

\* if cert not in certs: certs.append(cert)
AppendIfNew(list, cert) ==
  IF \E i \in 1..Len(list) : list[i] = cert THEN list ELSE Append(list, cert)

\* except cryptography.exceptions.InternalError: ... continue
IsCaught(exc) == exc = "InternalError"

\* A variant of CheckExpiry that reports no domains when the extension is
\* absent instead of raising.
CheckExpiryLenient(pem) ==
  IF pem.subjectCN = <<>>
  THEN [ok |-> FALSE, exc |-> "IndexError", line |-> 234]
  ELSE [ok |-> TRUE, cn |-> pem.subjectCN[1], domains |-> pem.dnsNames,
        expires |-> pem.notAfter]

\* check_expiry: the dictionary it returns, or the exception it raises.
CheckExpiry(pem) ==
  IF pem.subjectCN = <<>>
  THEN [ok |-> FALSE, exc |-> "IndexError", line |-> 234]
  ELSE IF ~pem.hasSAN
  THEN [ok |-> FALSE, exc |-> "ExtensionNotFound", line |-> 236]
  ELSE [ok |-> TRUE, cn |-> pem.subjectCN[1], domains |-> pem.dnsNames,
        expires |-> pem.notAfter]

\* A variant of ShouldNotify that tests the list for being a list.
NotifyAlways(list) == Len(list) >= 0

\* if expiring:
ShouldNotify(list) == list # <<>>

\* A variant of IsDelivered that accepts every 2xx status.
IsDeliveredAnySuccess(status) == status \div 100 = 2

\* if response.status_code != 201: raise
IsDelivered(status) == status = Created

\* An exception nothing catches: it leaves ssl_expiry_checker.
Raise(exc, at, line) ==
  /\ result' = "error"
  /\ error' = [exc |-> exc, at |-> at, line |-> line]
  /\ pc' = "done"

(* ------------------------------- Init --------------------------------- *)

Init ==
  /\ env \in Environments
  /\ clock \in Nows
  /\ pc = "start"
  /\ conn = "none"
  /\ urls = <<>>
  /\ fetched = <<>>
  /\ certs = <<>>
  /\ next = 1
  /\ expiring = <<>>
  /\ email = NoEmail
  /\ work = {}
  /\ posts = 0
  /\ response = <<>>
  /\ recovered = {}
  /\ result = "running"
  /\ error = NoError

(* ------------------------- ssl_expiry_checker ------------------------- *)

\* Lines 95-96: the threshold must be set before anything is done.
CheckThreshold ==
  /\ pc = "start"
  /\ IF ~IsSet("EXPIRY_THRESHOLD")
     THEN Raise("ValueError", "ssl_expiry_checker", 96)
     ELSE /\ pc' = "get_urls"
          /\ UNCHANGED <<result, error>>
  /\ UNCHANGED <<env, clock, conn, urls, fetched, certs, next, expiring,
                 email, work, posts,
                 response, recovered>>

(* ------------------------------ get_urls ------------------------------ *)

\* Lines 148-158: the four connection settings, checked in order.
GetUrlsSettings ==
  /\ pc = "get_urls"
  /\ IF FirstUnset(DbKeys, 1) # 0
     THEN Raise("ValueError", "get_urls", DbLines[FirstUnset(DbKeys, 1)])
     ELSE /\ pc' = "connect"
          /\ UNCHANGED <<result, error>>
  /\ UNCHANGED <<env, clock, conn, urls, fetched, certs, next, expiring,
                 email, work, posts,
                 response, recovered>>

\* Lines 160-166: mysql.connector.connect returns a connection.
Connect ==
  /\ pc = "connect"
  /\ conn' = "open"
  /\ work' = work \cup {"db"}
  /\ pc' = "query"
  /\ UNCHANGED <<env, clock, urls, fetched, certs, next, expiring, email,
                 posts, result, error,
                 response, recovered>>

\* Lines 167-177: mysql.connector.connect raises; logged and raised again.
ConnectFails ==
  /\ pc = "connect"
  /\ \E exc \in ConnectErrors :
       Raise(exc, "get_urls", IF exc = "Exception" THEN 177 ELSE 174)
  /\ work' = work \cup {"db"}
  /\ UNCHANGED <<env, clock, conn, urls, fetched, certs, next, expiring,
                 email, posts,
                 response, recovered>>

\* Lines 179-195 and 98, 204: the query returns its rows, cursor and
\* connection are closed, and get_certificates starts on the host names.
Query ==
  /\ pc = "query"
  /\ \E n \in 0..MaxHosts : urls' = [row \in 1..n |-> HostName(row)]
  /\ conn' = "closed"
  /\ pc' = "fetch"
  /\ UNCHANGED <<env, clock, fetched, certs, next, expiring, email, work,
                 posts, result, error,
                 response, recovered>>

\* Lines 181-188: cursor.execute or cursor.fetchall raises; nothing in
\* get_urls catches it, so lines 190-191 are not reached.
QueryFails ==
  /\ pc = "query"
  /\ \E step \in QueryErrors :
       Raise("mysql.connector.Error", "get_urls",
             IF step = "execute" THEN 181 ELSE 188)
  /\ UNCHANGED <<env, clock, conn, urls, fetched, certs, next, expiring,
                 email, work, posts,
                 response, recovered>>

(* -------------------------- get_certificates -------------------------- *)

\* Lines 206-217, ssl.get_server_certificate returns the PEM text.
FetchCertificate ==
  /\ pc = "fetch"
  /\ urls # <<>>
  /\ \E pem \in Pems :
       /\ fetched' = Append(fetched, pem)
       /\ certs' = AppendIfNew(certs, pem)
  /\ urls' = Tail(urls)
  /\ work' = work \cup {"tls"}
  /\ UNCHANGED <<env, clock, pc, conn, next, expiring, email, posts,
                 result, error,
                 response, recovered>>

\* Lines 208-214, ssl.get_server_certificate raises: the except clause
\* skips the host for the exception it names, any other leaves the run.
FetchFails ==
  /\ pc = "fetch"
  /\ urls # <<>>
  /\ \E exc \in FetchErrors :
       IF IsCaught(exc)
       THEN /\ urls' = Tail(urls)
            /\ recovered' = recovered \cup {"get_certificates"}
            /\ UNCHANGED <<pc, result, error>>
       ELSE /\ Raise(exc, "get_certificates", 210)
            /\ UNCHANGED <<urls, recovered>>
  /\ work' = work \cup {"tls"}
  /\ UNCHANGED <<env, clock, conn, fetched, certs, next, expiring, email,
                 posts,
                 response>>

\* Line 219: return certs.
GetCertificatesReturn ==
  /\ pc = "fetch"
  /\ urls = <<>>
  /\ pc' = "evaluate"
  /\ UNCHANGED <<env, clock, conn, urls, fetched, certs, next, expiring,
                 email, work, posts, result, error,
                 response, recovered>>

(* --------------------- ssl_expiry_checker, the loop ------------------- *)

\* The entry lines 118-125 append.
Entry(data, days) ==
  [cert |-> data.cn, delta |-> days, expires |-> data.expires,
   domains |-> data.domains]

\* Lines 102-125: one iteration of "for cert in certs". not_valid_after_utc
\* of a decoded certificate is always a datetime, so the test of line 108
\* never raises.
Evaluate ==
  /\ pc = "evaluate"
  /\ next <= Len(certs)
  /\ work' = work \cup {"evaluate"}
  /\ LET data == CheckExpiry(certs[next])
         days == DaysUntilExpiry(DeltaDays(data.expires, clock))
         text == env["EXPIRY_THRESHOLD"]
     IN  IF ~IsSet("EXPIRY_THRESHOLD")
         THEN /\ Raise("ValueError", "ssl_expiry_checker", 104)
              /\ UNCHANGED <<next, expiring>>
         ELSE IF ~data.ok
         THEN /\ Raise(data.exc, "check_expiry", data.line)
              /\ UNCHANGED <<next, expiring>>
         ELSE IF ~IsDecimal(text)
         THEN /\ Raise("ValueError", "ssl_expiry_checker", 115)
              /\ UNCHANGED <<next, expiring>>
         ELSE /\ expiring' = IF IsExpiring(days, ParseInt(text))
                             THEN Append(expiring, Entry(data, days))
                             ELSE expiring
              /\ next' = next + 1
              /\ UNCHANGED <<pc, result, error>>
  /\ UNCHANGED <<env, clock, conn, urls, fetched, certs, email, posts,
                 response, recovered>>

\* Lines 127, 140: nothing is expiring, the run returns.
NothingExpiring ==
  /\ pc = "evaluate"
  /\ next > Len(certs)
  /\ ~ShouldNotify(expiring)
  /\ result' = "ok"
  /\ pc' = "done"
  /\ UNCHANGED <<env, clock, conn, urls, fetched, certs, next, expiring,
                 email, work, posts, error,
                 response, recovered>>

(* --------------------------- construct_email -------------------------- *)

\* Lines 127-129 and 258-279: the three settings, then the template.
ConstructEmail ==
  /\ pc = "evaluate"
  /\ next > Len(certs)
  /\ ShouldNotify(expiring)
  /\ IF FirstUnset(EmailKeys, 1) # 0
     THEN /\ Raise("ValueError", "construct_email",
                   EmailLines[FirstUnset(EmailKeys, 1)])
          /\ UNCHANGED <<email, work>>
     ELSE /\ work' = work \cup {"render"}
          /\ \E rendered \in BOOLEAN :
               IF rendered
               THEN /\ email' = [subject |-> env["EMAIL_SUBJECT"],
                                 body |-> expiring,
                                 to |-> env["EMAIL_TO"],
                                 sender |-> env["EMAIL_SENDER"]]
                    /\ pc' = "send"
                    /\ UNCHANGED <<result, error>>
               ELSE /\ Raise("TemplateError", "render_template", 295)
                    /\ UNCHANGED email
  /\ UNCHANGED <<env, clock, conn, urls, fetched, certs, next, expiring,
                 posts,
                 response, recovered>>

(* ------------------------------ Email.send ---------------------------- *)

\* Lines 56-62: the webhook settings.
SendSettings ==
  /\ pc = "send"
  /\ IF ~IsSet("WEBHOOK_URL") \/ ~IsSet("WEBHOOK_USER") \/ ~IsSet("WEBHOOK_PASS")
     THEN Raise("ValueError", "Email.send",
                IF ~IsSet("WEBHOOK_URL") THEN 57 ELSE 60)
     ELSE /\ pc' = "post"
          /\ UNCHANGED <<result, error>>
  /\ UNCHANGED <<env, clock, conn, urls, fetched, certs, next, expiring,
                 email, work, posts,
                 response, recovered>>

\* Lines 64-75, 81-83 and 131-138: the webhook replies.
Post ==
  /\ pc = "post"
  /\ posts' = posts + 1
  /\ work' = work \cup {"post"}
  /\ \E status \in Replies :
       /\ response' = Append(response, status)
       /\ IF IsDelivered(status)
          THEN /\ result' = "ok"
               /\ pc' = "done"
               /\ UNCHANGED error
          ELSE Raise("RequestException", "Email.send", 83)
  /\ UNCHANGED <<env, clock, conn, urls, fetched, certs, next, expiring,
                 email,
                 recovered>>

\* Lines 64-79 and 131-135: the request gets no reply.
PostFails ==
  /\ pc = "post"
  /\ posts' = posts + 1
  /\ work' = work \cup {"post"}
  /\ \E exc \in PostErrors : Raise(exc, "Email.send", 79)
  /\ UNCHANGED <<env, clock, conn, urls, fetched, certs, next, expiring,
                 email,
                 response, recovered>>

Next ==
  \/ CheckThreshold
  \/ GetUrlsSettings
  \/ Connect
  \/ ConnectFails
  \/ Query
  \/ QueryFails
  \/ FetchCertificate
  \/ FetchFails
  \/ GetCertificatesReturn
  \/ Evaluate
  \/ NothingExpiring
  \/ ConstructEmail
  \/ SendSettings
  \/ Post
  \/ PostFails

Spec == Init /\ [][Next]_vars

(* ============================== claims ================================ *)

\* The certificates the loop of ssl_expiry_checker has passed.
Evaluated == SubSeq(certs, 1, next - 1)

Threshold == env["EXPIRY_THRESHOLD"]

(* ---------------------------------- C1 -------------------------------- *)

C1_Days(pem) == DaysUntilExpiry(DeltaDays(pem.notAfter, clock))

C1_Below(pem) == C1_Days(pem) < ParseInt(Threshold)

C1_EntryOf(pem) ==
  [cert |-> pem.subjectCN[1], delta |-> C1_Days(pem),
   expires |-> pem.notAfter, domains |-> pem.dnsNames]

\* C1: for every integer threshold T, the expiring list is exactly the
\* entries of the evaluated certificates whose computed days D satisfy
\* D < T, in evaluation order; nothing else is added or dropped.
C1_ExpiringIsBelowThreshold ==
  IF IsDecimal(Threshold)
  THEN LET below == SelectSeq(Evaluated, C1_Below)
       IN  expiring = [i \in 1..Len(below) |-> C1_EntryOf(below[i])]
  ELSE expiring = <<>>

\* A finished run with threshold 30 that evaluated a certificate with D = 30
\* and then one with D = 29, and reported only the second.
C1_Witness ==
  /\ pc = "done"
  /\ result = "ok"
  /\ Threshold = "30"
  /\ Len(certs) = 2
  /\ next = 3
  /\ C1_Days(certs[1]) = 30
  /\ C1_Days(certs[2]) = 29
  /\ Len(expiring) = 1
  /\ expiring[1].delta = 29

(* ---------------------------------- C2 -------------------------------- *)

\* C2: a fetch failure of any kind is caught and the host skipped:
\* get_certificates does not raise and the run is not aborted by it.
C2_FetchFailureNeverRaises == error.at # "get_certificates"

(* ---------------------------------- C3 -------------------------------- *)

\* C3: while the expiring list is empty no message is built and no webhook
\* POST made, and a run whose evaluation ends with the list empty completes
\* at once without error, whatever EMAIL_* and WEBHOOK_* settings are unset.
C3_NothingExpiringNothingSent ==
  /\ [](expiring = <<>> =>
          /\ email = NoEmail
          /\ posts = 0
          /\ work \cap {"render", "post"} = {}
          /\ error.at \notin {"construct_email", "render_template", "Email.send"})
  /\ [][(pc = "evaluate" /\ next > Len(certs) /\ expiring = <<>>) =>
          /\ pc' = "done"
          /\ result' = "ok"
          /\ error' = NoError
          /\ email' = NoEmail
          /\ posts' = 0
          /\ work' = work]_vars

\* A run that evaluated a certificate, found nothing expiring and returned,
\* with EMAIL_TO unset.
C3_Witness ==
  /\ pc = "done"
  /\ result = "ok"
  /\ ~IsSet("EMAIL_TO")
  /\ next > 1
  /\ expiring = <<>>
  /\ posts = 0

(* ---------------------------------- C4 -------------------------------- *)

\* C4: at most one POST is made per run; after the POST the run is over;
\* a 201 reply makes the run succeed, any other reply or no reply makes it
\* fail with the delivery error raised by Email.send.
C4_SingleDeliveryAttempt ==
  /\ posts <= 1
  /\ Len(response) <= posts
  /\ posts = 1 => pc = "done"
  /\ response = <<201>> => (result = "ok" /\ error = NoError)
  /\ (posts = 1 /\ response # <<201>>) =>
        /\ result = "error"
        /\ error.at = "Email.send"
        /\ error.exc \in {"RequestException"} \cup PostErrors

\* The webhook replied 500 to the only POST and the run failed.
C4_Witness ==
  /\ posts = 1
  /\ response = <<500>>
  /\ result = "error"
  /\ error.exc = "RequestException"

(* ---------------------------------- C5 -------------------------------- *)

\* Where x first occurs in seq.
C5_FirstAt(seq, x) ==
  CHOOSE i \in 1..Len(seq) : seq[i] = x /\ \A j \in 1..(i - 1) : seq[j] # x

\* C5: certs holds no two equal certificates, holds every certificate a
\* fetch returned, and lists them in first-seen order; each is evaluated and
\* reported at most once.
C5_CertificatesAreDistinct ==
  /\ \A i, j \in 1..Len(certs) : i # j => certs[i] # certs[j]
  /\ {certs[i] : i \in 1..Len(certs)} = {fetched[i] : i \in 1..Len(fetched)}
  /\ \A i, j \in 1..Len(certs) :
        i < j => C5_FirstAt(fetched, certs[i]) < C5_FirstAt(fetched, certs[j])
  /\ next - 1 <= Len(certs)
  /\ Len(expiring) <= next - 1

\* Two hosts presented the same certificate; it was evaluated and reported
\* once.
C5_Witness ==
  /\ pc = "done"
  /\ Len(fetched) = 2
  /\ fetched[1] = fetched[2]
  /\ Len(certs) = 1
  /\ next = 2
  /\ Len(expiring) = 1

(* ---------------------------------- C6 -------------------------------- *)

\* A "... not set" ValueError: the lines that raise one.
C6_IsSettingsError(e) ==
  /\ e.exc = "ValueError"
  /\ e.line \in {57, 60, 96, 104, 149, 152, 155, 158, 259, 262, 265}

C6_Unset(keys) == \E k \in keys : ~IsSet(k)

\* C6 as stated: when the error for an unset setting is raised, no work has
\* been done: no database connection, no TLS fetch, no evaluation, no
\* template rendering and no webhook call.
C6_SettingsErrorBeforeAnyWork ==
  C6_IsSettingsError(error) => (work = {} /\ conn = "none")

\* C6, amended: with EXPIRY_THRESHOLD or a DB_* setting unset the run does
\* no work and ends with a settings error; with an EMAIL_* setting unset no
\* template is rendered and no POST made; with a WEBHOOK_* setting unset no
\* POST is made; and the settings error of construct_email or Email.send is
\* raised only after the database, the fetches and the evaluation, with
\* some certificate expiring.
C6_SettingsCheckedWhereUsed ==
  /\ C6_Unset({"EXPIRY_THRESHOLD", "DB_HOST", "DB_USER", "DB_PASS", "DB_NAME"}) =>
        /\ work = {}
        /\ posts = 0
        /\ conn = "none"
        /\ pc = "done" => (result = "error" /\ C6_IsSettingsError(error))
  /\ C6_Unset({"EMAIL_SUBJECT", "EMAIL_TO", "EMAIL_SENDER"}) =>
        /\ "render" \notin work
        /\ email = NoEmail
        /\ posts = 0
  /\ C6_Unset({"WEBHOOK_URL", "WEBHOOK_USER", "WEBHOOK_PASS"}) =>
        /\ "post" \notin work
        /\ posts = 0
  /\ (C6_IsSettingsError(error) /\ error.at \in {"construct_email", "Email.send"}) =>
        /\ {"db", "tls", "evaluate"} \subseteq work
        /\ expiring # <<>>
        /\ posts = 0

\* EMAIL_TO is unset and construct_email raised for it after certificates
\* were fetched and evaluated.
C6_Witness ==
  /\ pc = "done"
  /\ ~IsSet("EMAIL_TO")
  /\ C6_IsSettingsError(error)
  /\ error.at = "construct_email"
  /\ {"db", "tls", "evaluate"} \subseteq work

(* ---------------------------------- C7 -------------------------------- *)

\* C7: only get_certificates recovers from an exception; an error ends the
\* run; no certificate without the SAN extension passes evaluation, and a
\* run that holds one neither succeeds nor builds or sends a message; when
\* check_expiry fails, the failing certificate gets no entry, the later
\* ones are not evaluated and nothing is sent for the earlier ones.
C7_OtherErrorsAbortTheRun ==
  /\ recovered \subseteq {"get_certificates"}
  /\ result = "error" => pc = "done"
  /\ \A i \in 1..(next - 1) : certs[i].hasSAN
  /\ (pc \in {"send", "post"} \/ result = "ok" \/ posts > 0 \/ email # NoEmail) =>
        \A i \in 1..Len(certs) : certs[i].hasSAN
  /\ error.at = "check_expiry" =>
        /\ result = "error"
        /\ next <= Len(certs)
        /\ Len(expiring) <= next - 1
        /\ email = NoEmail
        /\ posts = 0
        /\ work \cap {"render", "post"} = {}

\* The second certificate lacks the SAN extension: the run failed there, and
\* the first, already found expiring, was not reported.
C7_Witness ==
  /\ error.at = "check_expiry"
  /\ error.exc = "ExtensionNotFound"
  /\ next = 2
  /\ Len(expiring) = 1
  /\ posts = 0
  /\ email = NoEmail

(* ---------------------------------- C8 -------------------------------- *)

\* The whole days in x time units, rounded down: the d with
\* d * UnitsPerDay <= x < (d + 1) * UnitsPerDay.
C8_Floor(x) ==
  LET a == IF x < 0 THEN 0 - x ELSE x
  IN  CHOOSE d \in (0 - a - 1)..(a + 1) :
        d * UnitsPerDay <= x /\ x < (d + 1) * UnitsPerDay

C8_Reported(pem) ==
  \E j \in 1..Len(expiring) :
     /\ expiring[j].expires = pem.notAfter
     /\ expiring[j].cert = pem.subjectCN[1]
     /\ expiring[j].domains = pem.dnsNames

\* C8: an entry's delta is floor((notAfter - now) in days) when that is not
\* 0, negative values included, and 90 when it is 0; an evaluated
\* certificate is reported iff that value is below the threshold, so one
\* with less than a day left is reported iff 90 < threshold.
C8_SentinelOnlyForZeroDays ==
  IsDecimal(Threshold) =>
     /\ \A j \in 1..Len(expiring) :
           LET f == C8_Floor(expiring[j].expires - clock)
           IN  expiring[j].delta = IF f = 0 THEN Sentinel ELSE f
     /\ \A i \in 1..(next - 1) :
           LET f == C8_Floor(certs[i].notAfter - clock)
           IN  C8_Reported(certs[i]) <=>
                  IF f = 0 THEN Sentinel < ParseInt(Threshold)
                  ELSE f < ParseInt(Threshold)

\* With threshold 91 a certificate with less than a day left is reported
\* with delta 90 and an expired one with its negative day count.
C8_Witness ==
  /\ Threshold = "91"
  /\ Len(expiring) = 2
  /\ \E j \in 1..2 :
        /\ expiring[j].delta = Sentinel
        /\ expiring[j].expires - clock \in 0..(UnitsPerDay - 1)
  /\ \E j \in 1..2 :
        /\ expiring[j].delta < 0
        /\ expiring[j].expires - clock < 0

(* ---------------------------------- C9 -------------------------------- *)

\* C9: evaluating a certificate whose Subject has no Common Name does not
\* fail: check_expiry raises only for a certificate without the SAN
\* extension.
C9_MissingCommonNameDoesNotFail ==
  error.at = "check_expiry" => ~certs[next].hasSAN

(* --------------------------------- C10 -------------------------------- *)

\* C10: once get_urls has opened the database connection, the connection is
\* closed by the time get_urls is left, normally or with an error.
C10_ConnectionClosedOnLeaving ==
  pc \notin {"connect", "query"} => conn # "open"

====
